---- MODULE Spec2Model ----
(***************************************************************************)
(* Model of backend/main.py: a FastAPI service that loads one Stable       *)
(* Diffusion pipeline at startup (load_model) into the module globals      *)
(* `pipe` and `device`, and serves GET /health and POST /generate against  *)
(* them.                                                                   *)
(*                                                                         *)
(* Optional values (Python None) are sequences of length at most one:      *)
(* <<>> is None and <<x>> is the value x.                                  *)
(*                                                                         *)
(* External collaborators are modelled by their contract only:             *)
(*   - torch.cuda.is_available() is a fixed fact of the machine (cuda);    *)
(*   - every call inside load_model's try block may raise;                 *)
(*   - torch.Generator, the pipeline call and the PNG encoder may raise;   *)
(*   - the pipeline's image is a function of its arguments, of the         *)
(*     pipeline object and of the random numbers it draws: from the        *)
(*     generator it is given, or from torch's process-wide default         *)
(*     generator (globalRng) when generator=None.                          *)
(* The framework runs the startup handler, if it runs it at all (a server  *)
(* without lifespan support never does), to completion before it serves    *)
(* the first request, so no handler step precedes or interleaves with      *)
(* load_model; it may go on serving after load_model raised. Sync          *)
(* endpoints run on worker threads, so generate calls interleave.          *)
(***************************************************************************)
EXTENDS Integers, Sequences, FiniteSets, TLC

\* ------------------------------------------------------------------ bounds

\* Number of request slots (worker threads handling /generate concurrently).
NumReqs == 2
\* Number of distinguishable states of torch's default random generator.
RngPeriod == 2

Reqs == 1..NumReqs

\* ---------------------------------------------------------- request values

None == <<>>
Some(x) == <<x>>

Prompts == {"a red circle"}
Sizes == {512, 513}
Seeds == {None, Some(0)}

\* ImageRequest (prompt, width, height, seed); negative_prompt,
\* num_inference_steps and guidance_scale are passed through uninterpreted
\* and kept at their defaults.
ImageRequest == [prompt : Prompts, width : Sizes, height : Sizes, seed : Seeds]

\* ------------------------------------------------------------ exceptions

OutOfMemoryError == [type |-> "torch.cuda.OutOfMemoryError", msg |-> "CUDA out of memory"]
RuntimeError == [type |-> "RuntimeError", msg |-> "boom"]

\* What a call into torch / diffusers / PIL can raise on the given device:
\* torch.cuda.OutOfMemoryError comes from the CUDA allocator only.
Raisable(dev) == IF dev = "cuda" THEN {OutOfMemoryError, RuntimeError} ELSE {RuntimeError}

\* --------------------------------------------------------------- state

VARIABLES
    cuda,        \* torch.cuda.is_available() on this machine
    loaderPc,    \* position of load_model
    pipe,        \* global `pipe`: None or the pipeline object's state
    device,      \* global `device`
    globalRng,   \* state of torch's default generator
    rpc,         \* per slot: position of the generate call
    rq,          \* per slot: the ImageRequest being handled (None if none)
    gen,         \* per slot: local `generator` (None or <<seed>>)
    noise,       \* per slot: random stream the running pipeline call draws from
    invoked,     \* per slot: number of pipeline calls made for the request
    raised,      \* per slot: exception raised inside the try block (None if none)
    resp,        \* per slot: HTTP response of the request (None if none yet)
    healthResp   \* last response of GET /health (None if none yet)

vars == <<cuda, loaderPc, pipe, device, globalRng, rpc, rq, gen, noise,
          invoked, raised, resp, healthResp>>

loaderVars == <<loaderPc, pipe, device>>
reqVars == <<rpc, rq, gen, noise, invoked, raised, resp>>

\* ------------------------------------------------------------ load_model

\* StableDiffusionPipeline.from_pretrained(...): default scheduler, weights on
\* the host, no attention slicing.
FromPretrained == [scheduler |-> "default", placement |-> "host", slicing |-> FALSE]

\* A fully constructed pipeline for device dev: scheduler swapped, moved to
\* dev, attention slicing on when dev is cuda.
FullyConstructed(p, dev) ==
    /\ p # None
    /\ p[1].scheduler = "EulerAncestral"
    /\ p[1].placement = dev
    /\ (dev = "cuda" => p[1].slicing)

Running == {"construct", "swap", "move", "slice"}

Lifecycle ==
    CASE loaderPc = "idle" -> "UNLOADED"
      [] loaderPc \in Running -> "LOADING"
      [] loaderPc = "done" -> "READY"
      [] loaderPc = "failed" -> "FAILED"

\* The framework serves requests except while the startup handler runs.
Serving == loaderPc \notin Running

\* No request has been served yet.
Booting == healthResp = None /\ \A r \in Reqs : rpc[r] = "idle"

\* line 49 (startup runs before the first request) and lines 53-58
LoadSelectDevice ==
    /\ loaderPc = "idle"
    /\ Booting
    /\ device' = IF cuda THEN "cuda" ELSE "cpu"
    /\ loaderPc' = "construct"
    /\ UNCHANGED <<cuda, pipe, globalRng, healthResp>>
    /\ UNCHANGED reqVars

\* lines 64-69
LoadFromPretrained ==
    /\ loaderPc = "construct"
    /\ pipe' = Some(FromPretrained)
    /\ loaderPc' = "swap"
    /\ UNCHANGED <<cuda, device, globalRng, healthResp>>
    /\ UNCHANGED reqVars

\* line 72
LoadSwapScheduler ==
    /\ loaderPc = "swap"
    /\ pipe' = Some([pipe[1] EXCEPT !.scheduler = "EulerAncestral"])
    /\ loaderPc' = "move"
    /\ UNCHANGED <<cuda, device, globalRng, healthResp>>
    /\ UNCHANGED reqVars

\* lines 74-75, 78-79 (then line 81 on cpu)
LoadMoveToDevice ==
    /\ loaderPc = "move"
    /\ pipe' = Some([pipe[1] EXCEPT !.placement = device])
    /\ loaderPc' = IF device = "cuda" THEN "slice" ELSE "done"
    /\ UNCHANGED <<cuda, device, globalRng, healthResp>>
    /\ UNCHANGED reqVars

\* line 76 (then line 81)
LoadEnableSlicing ==
    /\ loaderPc = "slice"
    /\ pipe' = Some([pipe[1] EXCEPT !.slicing = TRUE])
    /\ loaderPc' = "done"
    /\ UNCHANGED <<cuda, device, globalRng, healthResp>>
    /\ UNCHANGED reqVars

\* lines 82-84: the call about to run raises; the handler logs and re-raises,
\* leaving the globals as they are.
LoadRaise ==
    /\ loaderPc \in Running
    /\ loaderPc' = "failed"
    /\ UNCHANGED <<cuda, pipe, device, globalRng, healthResp>>
    /\ UNCHANGED reqVars

\* ---------------------------------------------------------------- health

\* Variant of HealthLoaded that reports the flag as always set.
HealthLoadedAlways(p) == TRUE

\* line 88: "loaded": pipe is not None
HealthLoaded(p) == p # None

\* lines 86-88
Health ==
    /\ Serving
    /\ healthResp' = Some([status |-> "ok", device |-> device, loaded |-> HealthLoaded(pipe)])
    /\ UNCHANGED <<cuda, globalRng>>
    /\ UNCHANGED loaderVars
    /\ UNCHANGED reqVars

\* -------------------------------------------------------------- generate

MODEL_ID == "runwayml/stable-diffusion-v1-5"

\* Variant of NotLoaded with the not-loaded check left out.
NotLoadedUnchecked(p) == FALSE

\* line 93: pipe is None
NotLoaded(p) == p = None

\* Variant of DimsRejected that forgets the height.
DimsRejectedWidthOnly(q) == q.width % 8 # 0

\* line 96: req.width % 8 != 0 or req.height % 8 != 0
DimsRejected(q) == q.width % 8 # 0 \/ q.height % 8 # 0

\* Variant of SeedSupplied that tests truthiness (`if req.seed:`), so that
\* seed 0 counts as no seed.
SeedTruthy(seed) == seed # None /\ seed[1] # 0

\* line 101: req.seed is not None
SeedSupplied(seed) == seed # None

\* line 102: torch.Generator(device=device).manual_seed(req.seed); the
\* generator's state is fixed by the seed.
ManualSeed(seed) == Some(seed[1])

\* HTTPException(status_code, detail)
HTTPException(code, detail) == [status |-> code, body |-> [detail |-> detail]]

\* Variant of ExceptionResponse with `except Exception` tried first.
ExceptionResponseGeneric(exc) == HTTPException(500, exc.msg)

\* lines 124-128: the except clauses, tried in order.
ExceptionResponse(exc) ==
    IF exc.type = "torch.cuda.OutOfMemoryError"
    THEN HTTPException(507, "CUDA OOM. Try smaller width/height (512) or fewer steps.")
    ELSE HTTPException(500, exc.msg)

\* The random stream a pipeline call draws from: its generator argument, or
\* torch's default generator in its current state when generator=None.
NoiseSource(g, rng) == IF g # None THEN <<"generator", g[1]>> ELSE <<"default", rng>>

\* result.images[0] of pipe(prompt, ..., width, height, generator): fixed by
\* the pipeline object, the arguments and the random stream.
PipelineImage(p, q, n) ==
    [pipeline |-> p, prompt |-> q.prompt, width |-> q.width, height |-> q.height, noise |-> n]

\* lines 43-47
pil_to_data_url_png(img) == <<"data:image/png;base64,", img>>

\* lines 117-123
OkResponse(q, img, dev) ==
    [status |-> 200,
     body |-> [image |-> pil_to_data_url_png(img), prompt |-> q.prompt,
               seed |-> q.seed, device |-> dev, model |-> MODEL_ID]]

\* A request arrives in slot r and generate runs lines 91-104: the not-loaded
\* check, the size check, then the generator inside the try block.
GenerateBegin(r) ==
    /\ Serving
    /\ rpc[r] \in {"idle", "done"}
    /\ \E q \in ImageRequest :
        /\ rq' = [rq EXCEPT ![r] = Some(q)]
        /\ invoked' = [invoked EXCEPT ![r] = 0]
        /\ noise' = [noise EXCEPT ![r] = None]
        /\ IF NotLoaded(pipe)
           THEN /\ resp' = [resp EXCEPT ![r] = Some(HTTPException(500, "Model not loaded"))]
                /\ rpc' = [rpc EXCEPT ![r] = "done"]
                /\ gen' = [gen EXCEPT ![r] = None]
                /\ raised' = [raised EXCEPT ![r] = None]
           ELSE IF DimsRejected(q)
           THEN /\ resp' = [resp EXCEPT ![r] =
                        Some(HTTPException(400, "width/height must be divisible by 8 (e.g., 512, 768)"))]
                /\ rpc' = [rpc EXCEPT ![r] = "done"]
                /\ gen' = [gen EXCEPT ![r] = None]
                /\ raised' = [raised EXCEPT ![r] = None]
           ELSE IF SeedSupplied(q.seed)
           THEN \/ /\ gen' = [gen EXCEPT ![r] = ManualSeed(q.seed)]
                   /\ rpc' = [rpc EXCEPT ![r] = "call"]
                   /\ resp' = [resp EXCEPT ![r] = None]
                   /\ raised' = [raised EXCEPT ![r] = None]
                \/ \E exc \in Raisable(device) :
                   /\ gen' = [gen EXCEPT ![r] = None]
                   /\ raised' = [raised EXCEPT ![r] = Some(exc)]
                   /\ resp' = [resp EXCEPT ![r] = Some(ExceptionResponse(exc))]
                   /\ rpc' = [rpc EXCEPT ![r] = "done"]
           ELSE /\ gen' = [gen EXCEPT ![r] = None]
                /\ rpc' = [rpc EXCEPT ![r] = "call"]
                /\ resp' = [resp EXCEPT ![r] = None]
                /\ raised' = [raised EXCEPT ![r] = None]
    /\ UNCHANGED <<cuda, globalRng, healthResp>>
    /\ UNCHANGED loaderVars

\* Variant of Invoke that holds a lock around the pipeline call.
InvokeSerialized(r) ==
    /\ rpc[r] = "call"
    /\ \A o \in Reqs \ {r} : rpc[o] # "inpipe"
    /\ rpc' = [rpc EXCEPT ![r] = "inpipe"]
    /\ invoked' = [invoked EXCEPT ![r] = @ + 1]
    /\ noise' = [noise EXCEPT ![r] = Some(NoiseSource(gen[r], globalRng))]
    /\ globalRng' = IF gen[r] = None THEN (globalRng + 1) % RngPeriod ELSE globalRng
    /\ UNCHANGED <<cuda, rq, gen, raised, resp, healthResp>>
    /\ UNCHANGED loaderVars

\* lines 105-106: the thread enters pipe(...). Nothing in generate makes it
\* wait for another thread. The call's random stream is fixed here; a call
\* without a generator advances torch's default generator.
Invoke(r) ==
    /\ rpc[r] = "call"
    /\ rpc' = [rpc EXCEPT ![r] = "inpipe"]
    /\ invoked' = [invoked EXCEPT ![r] = @ + 1]
    /\ noise' = [noise EXCEPT ![r] = Some(NoiseSource(gen[r], globalRng))]
    /\ globalRng' = IF gen[r] = None THEN (globalRng + 1) % RngPeriod ELSE globalRng
    /\ UNCHANGED <<cuda, rq, gen, raised, resp, healthResp>>
    /\ UNCHANGED loaderVars

\* Variant of GenerateEnd whose out-of-memory handler drops the global
\* pipeline to free accelerator memory.
GenerateEndReleasing(r) ==
    /\ rpc[r] = "inpipe"
    /\ rpc' = [rpc EXCEPT ![r] = "done"]
    /\ noise' = [noise EXCEPT ![r] = None]
    /\ \/ /\ resp' = [resp EXCEPT ![r] =
                  Some(OkResponse(rq[r][1], PipelineImage(pipe[1], rq[r][1], noise[r][1]), device))]
          /\ UNCHANGED <<raised, pipe>>
       \/ \E exc \in Raisable(device) :
          /\ raised' = [raised EXCEPT ![r] = Some(exc)]
          /\ resp' = [resp EXCEPT ![r] = Some(ExceptionResponse(exc))]
          /\ pipe' = IF exc = OutOfMemoryError THEN None ELSE pipe
    /\ UNCHANGED <<cuda, globalRng, rq, gen, invoked, healthResp>>
    /\ UNCHANGED <<loaderPc, device>>

\* lines 106-128: the pipeline call returns or raises; the image is encoded
\* (which may raise) and the response is built.
GenerateEnd(r) ==
    /\ rpc[r] = "inpipe"
    /\ rpc' = [rpc EXCEPT ![r] = "done"]
    /\ noise' = [noise EXCEPT ![r] = None]
    /\ \/ /\ resp' = [resp EXCEPT ![r] =
                  Some(OkResponse(rq[r][1], PipelineImage(pipe[1], rq[r][1], noise[r][1]), device))]
          /\ UNCHANGED raised
       \/ \E exc \in Raisable(device) :
          /\ raised' = [raised EXCEPT ![r] = Some(exc)]
          /\ resp' = [resp EXCEPT ![r] = Some(ExceptionResponse(exc))]
    /\ UNCHANGED <<cuda, globalRng, rq, gen, invoked, healthResp>>
    /\ UNCHANGED loaderVars

\* ------------------------------------------------------------ the system

Init ==
    /\ cuda \in BOOLEAN
    /\ loaderPc = "idle"
    /\ pipe = None
    /\ device = "cpu"
    /\ globalRng = 0
    /\ rpc = [r \in Reqs |-> "idle"]
    /\ rq = [r \in Reqs |-> None]
    /\ gen = [r \in Reqs |-> None]
    /\ noise = [r \in Reqs |-> None]
    /\ invoked = [r \in Reqs |-> 0]
    /\ raised = [r \in Reqs |-> None]
    /\ resp = [r \in Reqs |-> None]
    /\ healthResp = None

Next ==
    \/ LoadSelectDevice
    \/ LoadFromPretrained
    \/ LoadSwapScheduler
    \/ LoadMoveToDevice
    \/ LoadEnableSlicing
    \/ LoadRaise
    \/ Health
    \/ \E r \in Reqs : GenerateBegin(r)
    \/ \E r \in Reqs : Invoke(r)
    \/ \E r \in Reqs : GenerateEnd(r)

Spec == Init /\ [][Next]_vars

\* ------------------------------------------------------------ properties

\* The request in slot r has been answered.
Answered(r) == rq[r] # None /\ resp[r] # None

Status(r) == resp[r][1].status

\* The size constraint of the specification: width or height not a multiple of 8.
BadSize(q) == q.width % 8 # 0 \/ q.height % 8 # 0

\* C1 (as stated): every request whose width or height is not divisible by 8
\* is answered 400, whatever the process state, and never reaches the pipeline.
C1_BadSizeAlways400 ==
    \A r \in Reqs :
        Answered(r) /\ BadSize(rq[r][1]) => Status(r) = 400 /\ invoked[r] = 0

\* C1 (amended): a request whose width or height is not divisible by 8 never
\* reaches the pipeline; it is answered 400 when the model handle is populated
\* and 500 "Model not loaded" when the handle is absent.
C1_BadSizeRejected ==
    \A r \in Reqs :
        Answered(r) /\ BadSize(rq[r][1]) =>
            /\ invoked[r] = 0
            /\ IF pipe # None
               THEN Status(r) = 400
               ELSE Status(r) = 500 /\ resp[r][1].body.detail = "Model not loaded"

C1_Witness ==
    \E r \in Reqs :
        /\ Answered(r)
        /\ rq[r][1].width % 8 = 0
        /\ rq[r][1].height % 8 # 0
        /\ Status(r) = 400

\* C2: whenever a request can observe the handle, pipe is absent or a fully
\* constructed pipeline, and after a failed load_model the handle is absent.
C2_LoadAtomic ==
    Serving =>
        /\ pipe = None \/ FullyConstructed(pipe, device)
        /\ (loaderPc = "failed" => pipe = None)

\* C3: a request handled while the handle is absent is answered 500 "Model not
\* loaded", makes no pipeline call and builds no generator.
C3_NotLoaded500 ==
    \A r \in Reqs :
        Answered(r) /\ pipe = None =>
            /\ Status(r) = 500
            /\ resp[r][1].body.detail = "Model not loaded"
            /\ invoked[r] = 0
            /\ gen[r] = None
            /\ rpc[r] = "done"

C3_Witness ==
    \E r \in Reqs :
        /\ Answered(r)
        /\ pipe = None
        /\ rq[r][1].seed # None
        /\ ~BadSize(rq[r][1])
        /\ Lifecycle = "FAILED"

\* C4: a generate request is answered 200 only in READY.
C4_SuccessOnlyWhenReady ==
    \A r \in Reqs : Answered(r) /\ Status(r) = 200 => Lifecycle = "READY"

\* C5: every GET /health answers status "ok", leaves pipe and device as they
\* are, reports loaded false while load_model has not run and loaded true
\* once load_model has completed successfully.
C5_Health ==
    [][healthResp' # healthResp =>
        /\ healthResp'[1].status = "ok"
        /\ (Lifecycle = "UNLOADED" => ~healthResp'[1].loaded)
        /\ (Lifecycle = "READY" => healthResp'[1].loaded)
        /\ healthResp'[1].device = device
        /\ UNCHANGED <<loaderVars, reqVars, globalRng>>]_vars

C5_Witness ==
    /\ healthResp # None
    /\ healthResp[1].loaded
    /\ Lifecycle = "READY"

\* C6: two successful requests carrying the same seed (0 included) and the
\* same other parameters return the same image, whatever ran before or
\* between them; a request without a seed gets no generator.
C6_SeedDeterminism ==
    /\ \A r1, r2 \in Reqs :
        /\ Answered(r1) /\ Status(r1) = 200
        /\ Answered(r2) /\ Status(r2) = 200
        /\ rq[r1] = rq[r2]
        /\ rq[r1][1].seed # None
        => resp[r1][1].body.image = resp[r2][1].body.image
    /\ \A r \in Reqs : rq[r] # None /\ rq[r][1].seed = None => gen[r] = None

C6_Witness ==
    \E r1, r2 \in Reqs :
        /\ r1 # r2
        /\ Answered(r1) /\ Status(r1) = 200
        /\ Answered(r2) /\ Status(r2) = 200
        /\ rq[r1] = rq[r2]
        /\ rq[r1][1].seed = Some(0)
        /\ globalRng # 0

\* C7: for a validated request on a loaded model, an exception in the try
\* block is answered 507 when it is the accelerator's out-of-memory error and
\* 500 with the raw message otherwise; the pipeline is called at most once per
\* request, and only the request whose handler raised gets the failure.
C7_FailureMapping ==
    \A r \in Reqs :
        /\ invoked[r] <= 1
        /\ Answered(r) /\ pipe # None /\ ~BadSize(rq[r][1]) =>
            /\ raised[r] = None <=> Status(r) = 200
            /\ raised[r] # None /\ raised[r][1] = OutOfMemoryError => Status(r) = 507
            /\ raised[r] # None /\ raised[r][1] # OutOfMemoryError =>
                   Status(r) = 500 /\ resp[r][1].body.detail = raised[r][1].msg

C7_Witness ==
    \E r \in Reqs :
        /\ Answered(r)
        /\ Status(r) = 507
        /\ invoked[r] = 1
        /\ raised[r] = Some(OutOfMemoryError)

\* C8: no step of a health or generate handler (every step that is not a step
\* of load_model) changes pipe or device.
C8_HandleReadOnly ==
    [][loaderPc' = loaderPc => pipe' = pipe /\ device' = device]_vars

C8_Witness ==
    /\ healthResp # None
    /\ pipe # None
    /\ \E r1, r2 \in Reqs :
        /\ Answered(r1) /\ Status(r1) = 200
        /\ Answered(r2) /\ Status(r2) = 507

\* C9: the handle goes from absent to its final value in a single write, and
\* the device label is written once, by load_model's device selection.
C9_SingleWrite ==
    [][/\ (pipe' # pipe => pipe = None)
       /\ (device' # device => loaderPc = "idle")]_vars

\* C10: a request about to call the pipeline never has to wait for another
\* request, whatever the other requests are doing.
C10_NoWaiting ==
    \A r \in Reqs : rpc[r] = "call" => ENABLED Invoke(r)

\* Two requests are inside the pipeline call at the same time.
C10_Witness ==
    \E r1, r2 \in Reqs : r1 # r2 /\ rpc[r1] = "inpipe" /\ rpc[r2] = "inpipe"

====
